---- MODULE Spec2Model ----
(***************************************************************************)
(* Jironaut chat front end (React component App): the rubric scorer        *)
(* calculateBadgeAndTotal, the result cache kept in localStorage, the      *)
(* retrying completion client chatWithRetry and the submit handler         *)
(* sendMessage, modelled from src/unnamed/part_000 (lines 1-420, the       *)
(* variant with the cache and the scorer); src/src/App.jsx holds the same  *)
(* chatWithRetry and a sendMessage without cache and scorer.               *)
(*                                                                         *)
(* Six specifications share the module:                                    *)
(*   SpecScore  calculateBadgeAndTotal applied to bounded score mappings   *)
(*   SpecRetry  one chatWithRetry invocation, retries and baseDelayMs      *)
(*              drawn from bounded sets                                    *)
(*   SpecClassify  the mode selection of sendMessage applied to bounded    *)
(*              input values                                               *)
(*   SpecGuard  Spec, and sendMessage called whatever the state of the     *)
(*              controls                                                   *)
(*   Spec       the component: typing, submitting, upstream replies and    *)
(*              backoff timers (chatWithRetry with its default options)    *)
(*   SpecLive   Spec with an upstream that settles and timers that fire    *)
(* Each leaves the variables of the others at their initial values.        *)
(*                                                                         *)
(* Assumptions: localStorage holds no cache item when the component        *)
(* mounts and its reads and writes do not throw; an upstream response      *)
(* carries a string content; score values are integers.                    *)
(***************************************************************************)
EXTENDS Integers, Sequences, FiniteSets, TLC

VARIABLES
    scoreIn,     \* SpecScore: the scores mapping handed to calculateBadgeAndTotal
    scoreOut,    \* SpecScore: the {total, badge} it returned
    scoreDone,   \* SpecScore: whether the call has returned
    classIn,     \* SpecClassify: the input value handed to the mode selection
    classOut,    \* SpecClassify: the mode, prompts and cleaned input chosen
    classDone,   \* SpecClassify: whether the selection has run
    retryCall,          \* SpecRetry: the state of the chatWithRetry invocation
    messages,    \* useState([]): the conversation, records {role, content}
    input,       \* useState(""): the input field, a sequence of characters
    isLoading,   \* useState(false)
    storage,     \* localStorage item "jironautCache": null or a JSON text
    procs,       \* sendMessage invocations suspended in chatWithRetry, oldest first
    submits,     \* log: number of submissions accepted so far
    lastOutcome, \* log: how the last finished submission ended
    uncaught,    \* log: errors that left sendMessage as rejections
    ignoredCall  \* SpecGuard: log: the state of the guard at the last call of
                 \* sendMessage made with an empty trimmed input or while loading

scoreVars == <<scoreIn, scoreOut, scoreDone>>
classVars == <<classIn, classOut, classDone>>
appVars == <<messages, input, isLoading, storage, procs, submits, lastOutcome, uncaught>>
vars == <<scoreIn, scoreOut, scoreDone, classIn, classOut, classDone, retryCall, messages, input, isLoading, storage,
          procs, submits, lastOutcome, uncaught, ignoredCall>>

(***************************************************************************)
(* Rubric scorer: calculateBadgeAndTotal (part_000 lines 57-76)            *)
(***************************************************************************)

\* The eight rubric criteria (keys read at lines 66-68; maxima at 139-140).
Criteria ==
    {"Title clarity", "Description completeness", "Benefit Hypothesis",
     "Leading Indicators", "Strategic alignment", "Risk/Impact",
     "Dependencies", "Scope clarity"}

\* Maximum points per criterion, as stated in the Score prompt.
MaxPoints(k) ==
    CASE k = "Title clarity" -> 10
      [] k = "Description completeness" -> 15
      [] k = "Benefit Hypothesis" -> 20
      [] k = "Leading Indicators" -> 15
      [] k = "Strategic alignment" -> 10
      [] k = "Risk/Impact" -> 10
      [] k = "Dependencies" -> 10
      [] k = "Scope clarity" -> 10
      [] OTHER -> 0

\* const totalPoints = 100
totalPoints == 100

\* The badge labels (the source appends an emoji to each) and JS null.
VisionaryThinker == "Visionary Thinker"
FeatureArchitect == "Feature Architect"
ClarityChampion == "Clarity Champion"
RiskWrangler == "Risk Wrangler"
NoBadge == "null"

BadgeLabels == {VisionaryThinker, FeatureArchitect, ClarityChampion, RiskWrangler}

\* for (let k in scores) obtained += scores[k]: every own key, rubric or not.
RECURSIVE SumOver(_, _)
SumOver(scores, keys) ==
    IF keys = {} THEN 0
    ELSE LET k == CHOOSE x \in keys : TRUE
         IN  scores[k] + SumOver(scores, keys \ {k})

\* Math.round(num / den) for den > 0: the nearest integer, halves rounded up.
MathRound(num, den) == (2 * num + den) \div (2 * den)

\* A mutant of OrZero: a missing key is not defaulted, so the sum it enters is
\* NaN and every comparison on it is false (modelled by a value below every
\* threshold).
OrZero_NoDefault(scores, k) ==
    IF k \in DOMAIN scores THEN scores[k] ELSE -1000

\* scores[k] || 0: a missing (undefined) or zero value reads as 0.
OrZero(scores, k) ==
    IF k \in DOMAIN scores /\ scores[k] # 0 THEN scores[k] ELSE 0

benefitOf(scores) ==
    OrZero(scores, "Benefit Hypothesis") + OrZero(scores, "Strategic alignment")
        + OrZero(scores, "Leading Indicators")

clarityOf(scores) ==
    OrZero(scores, "Title clarity") + OrZero(scores, "Description completeness")
        + OrZero(scores, "Scope clarity")

riskDepsOf(scores) ==
    OrZero(scores, "Risk/Impact") + OrZero(scores, "Dependencies")

\* const total = Math.round((obtained / totalPoints) * 100)
totalOf(scores) ==
    MathRound(SumOver(scores, DOMAIN scores) * 100, totalPoints)

\* A mutant of badgeOf: the rules ranked by priority, the first match kept.
badgeOf_FirstMatch(scores) ==
    IF benefitOf(scores) >= 40 THEN VisionaryThinker
    ELSE IF totalOf(scores) >= 85 THEN FeatureArchitect
    ELSE IF clarityOf(scores) >= 30 THEN ClarityChampion
    ELSE IF riskDepsOf(scores) >= 15 THEN RiskWrangler
    ELSE NoBadge

\* A mutant of badgeOf: the total rule evaluated last.
badgeOf_TotalLast(scores) ==
    LET b1 == IF benefitOf(scores) >= 40 THEN VisionaryThinker ELSE NoBadge
        b2 == IF clarityOf(scores) >= 30 THEN ClarityChampion ELSE b1
        b3 == IF riskDepsOf(scores) >= 15 THEN RiskWrangler ELSE b2
    IN  IF totalOf(scores) >= 85 THEN FeatureArchitect ELSE b3

\* let badge = null; then four unconditional if-assignments in source order.
badgeOf(scores) ==
    LET b0 == NoBadge
        b1 == IF benefitOf(scores) >= 40 THEN VisionaryThinker ELSE b0
        b2 == IF totalOf(scores) >= 85 THEN FeatureArchitect ELSE b1
        b3 == IF clarityOf(scores) >= 30 THEN ClarityChampion ELSE b2
        b4 == IF riskDepsOf(scores) >= 15 THEN RiskWrangler ELSE b3
    IN  b4

calculateBadgeAndTotal(scores) ==
    [total |-> totalOf(scores), badge |-> badgeOf(scores)]

\* Every criterion at its maximum, no other key: 100 points.
FullMarks == [k \in Criteria |-> MaxPoints(k)]

\* Risk/Impact = 10, Dependencies = 10, every other criterion 0.
RiskOnly ==
    [k \in Criteria |-> IF k \in {"Risk/Impact", "Dependencies"} THEN 10 ELSE 0]

(***************************************************************************)
(* Strings.  A string is a sequence of tokens (words and punctuation for   *)
(* messages, single characters for user input); includes() is a search for *)
(* a contiguous run of tokens.                                             *)
(***************************************************************************)

\* String.prototype.includes
Includes(s, needle) ==
    \E i \in 1..(Len(s) - Len(needle) + 1) :
        SubSeq(s, i, i + Len(needle) - 1) = needle

\* "check your plan and billing" (line 94)
BillingPhrase == <<"check", "your", "plan", "and", "billing">>

\* "billing" (line 198)
BillingWord == <<"billing">>

(***************************************************************************)
(* Upstream errors and responses (client.chat.completions.create)          *)
(***************************************************************************)

\* err.status of a rate-limit failure (line 100)
TooManyRequests == 429

\* Error messages the upstream may carry.
RateLimitMessage == <<"Rate", "limit", "reached", "for", "requests">>

QuotaMessage ==
    <<"You", "exceeded", "your", "current", "quota", ",", "please">>
        \o BillingPhrase \o <<"details", ".">>

InactiveMessage ==
    <<"Your", "account", "is", "not", "active", ",", "please", "check",
      "your", "billing", "details", ".">>

UpstreamMessages == {RateLimitMessage, QuotaMessage, InactiveMessage}

\* The failures create() may reject with: a status (429 or another) and a
\* message.
UpstreamErrors ==
    [status : {TooManyRequests, 500}, message : UpstreamMessages]

NoError == [status |-> 0, message |-> <<>>]

\* new Error("OpenAI: quota/billing exceeded. Add billing to your account.")
\* (lines 95-97): no status.
BillingExceededError ==
    [status |-> 0,
     message |-> <<"OpenAI", ":", "quota", "/", "billing", "exceeded", ".",
                   "Add", "billing", "to", "your", "account", ".">>]

\* String(err?.message || "")
MessageOf(err) == err.message

\* Math.pow(2, n) for a natural n
RECURSIVE MathPow2(_)
MathPow2(n) == IF n = 0 THEN 1 ELSE 2 * MathPow2(n - 1)

(***************************************************************************)
(* chatWithRetry (part_000 lines 84-108, App.jsx lines 51-70)              *)
(*                                                                         *)
(* The state of one invocation: its options, the loop variable attempt,    *)
(* where it is suspended (pc), what it returned or threw, and a log of     *)
(* what it did: calls (create() invocations), delays (the setTimeout       *)
(* delays, in order) and outcomes (how each create() ended).               *)
(***************************************************************************)

\* { retries = 3, baseDelayMs = 800 } (line 86)
DefaultRetries == 3
DefaultBaseDelayMs == 800

NoResponse == [content |-> [kind |-> "none"]]

\* What the function returns when the loop ends without a return.
UndefinedResponse == [content |-> [kind |-> "undefined"]]

OkOutcome(response) == [ok |-> TRUE, response |-> response, err |-> NoError]
ErrOutcome(err) == [ok |-> FALSE, response |-> NoResponse, err |-> err]

\* The loop test attempt <= retries, then create(payload) and its await.
cwEnter(cw) ==
    IF cw.attempt <= cw.retries
    THEN [cw EXCEPT !.pc = "create", !.calls = @ + 1]
    ELSE [cw EXCEPT !.pc = "returned", !.ret = UndefinedResponse]

\* The call chatWithRetry(payload, {retries, baseDelayMs}) up to its first await.
chatWithRetry(retries, baseDelayMs) ==
    cwEnter([retries |-> retries, baseDelayMs |-> baseDelayMs, attempt |-> 0,
             pc |-> "start", ret |-> NoResponse, err |-> NoError,
             calls |-> 0, delays |-> <<>>, outcomes |-> <<>>])

\* A mutant of cwResolve: the return is lost and the loop goes on.
cwResolve_NoReturn(cw, response) ==
    cwEnter([cw EXCEPT !.attempt = @ + 1,
                       !.outcomes = Append(@, OkOutcome(response))])

\* The awaited create() resolves: return the response (line 90).
cwResolve(cw, response) ==
    [cw EXCEPT !.pc = "returned", !.ret = response,
               !.outcomes = Append(@, OkOutcome(response))]

\* A mutant of cwReject: every failure short of the last attempt is retried,
\* whatever its status.
cwReject_RetryAnyStatus(cw, err) ==
    LET logged == [cw EXCEPT !.outcomes = Append(@, ErrOutcome(err))]
    IN  IF Includes(MessageOf(err), BillingPhrase)
        THEN [logged EXCEPT !.pc = "threw", !.err = BillingExceededError]
        ELSE IF cw.attempt < cw.retries
        THEN [logged EXCEPT !.pc = "sleep",
                !.delays = Append(@, cw.baseDelayMs * MathPow2(cw.attempt))]
        ELSE [logged EXCEPT !.pc = "threw", !.err = err]

\* A mutant of cwReject: the 429 test comes before the billing test.
cwReject_RetryBeforeBilling(cw, err) ==
    LET logged == [cw EXCEPT !.outcomes = Append(@, ErrOutcome(err))]
    IN  IF err.status = TooManyRequests /\ cw.attempt < cw.retries
        THEN [logged EXCEPT !.pc = "sleep",
                !.delays = Append(@, cw.baseDelayMs * MathPow2(cw.attempt))]
        ELSE IF Includes(MessageOf(err), BillingPhrase)
        THEN [logged EXCEPT !.pc = "threw", !.err = BillingExceededError]
        ELSE [logged EXCEPT !.pc = "threw", !.err = err]

\* A mutant of cwReject: the backoff grows linearly.
cwReject_LinearBackoff(cw, err) ==
    LET logged == [cw EXCEPT !.outcomes = Append(@, ErrOutcome(err))]
    IN  IF Includes(MessageOf(err), BillingPhrase)
        THEN [logged EXCEPT !.pc = "threw", !.err = BillingExceededError]
        ELSE IF err.status = TooManyRequests /\ cw.attempt < cw.retries
        THEN [logged EXCEPT !.pc = "sleep",
                !.delays = Append(@, cw.baseDelayMs * (cw.attempt + 1))]
        ELSE [logged EXCEPT !.pc = "threw", !.err = err]

\* The awaited create() rejects with err: the catch block (lines 91-106).
cwReject(cw, err) ==
    LET logged == [cw EXCEPT !.outcomes = Append(@, ErrOutcome(err))]
    IN  IF Includes(MessageOf(err), BillingPhrase)
        THEN [logged EXCEPT !.pc = "threw", !.err = BillingExceededError]
        ELSE IF err.status = TooManyRequests /\ cw.attempt < cw.retries
        THEN [logged EXCEPT !.pc = "sleep",
                !.delays = Append(@, cw.baseDelayMs * MathPow2(cw.attempt))]
        ELSE [logged EXCEPT !.pc = "threw", !.err = err]

\* A mutant of cwWake: the timer's promise never resolves.
cwWake_NeverResolves(cw) == cw

\* The backoff timer fires: continue, attempt++, the loop test, the next call.
cwWake(cw) == cwEnter([cw EXCEPT !.attempt = @ + 1])

cwDone(cw) == cw.pc \in {"returned", "threw"}

(***************************************************************************)
(* JSON.  A JSON value is null, a number, a string or an object (a mapping *)
(* from keys to values; the scores object maps keys to integer points).    *)
(* A string is either the serialization of a JSON value or text that is    *)
(* not JSON.                                                               *)
(***************************************************************************)

JNull == [t |-> "null"]
JNum(n) == [t |-> "num", n |-> n]
JStr(s) == [t |-> "str", s |-> s]
JObj(f) == [t |-> "obj", o |-> f]

\* The string that serializes the JSON value v.
JsonText(v) == [kind |-> "json", value |-> v]

\* A string that is not JSON.
PlainText(chars) == [kind |-> "text", chars |-> chars]

\* JSON.parse: the value, or a SyntaxError.
JSONparse(text) ==
    IF text.kind = "json"
    THEN [ok |-> TRUE, value |-> text.value]
    ELSE [ok |-> FALSE, value |-> JNull]

\* JSON.stringify
JSONstringify(v) == JsonText(v)

\* JavaScript truthiness of a value: null, 0 and "" are falsy, objects truthy.
Truthy(v) ==
    CASE v.t = "null" -> FALSE
      [] v.t = "num" -> v.n # 0
      [] v.t = "str" -> v.s # ""
      [] OTHER -> TRUE

\* Whether the parsed value has an own property key.
HasField(v, key) == v.t = "obj" /\ key \in DOMAIN v.o

\* parsed[key] = value: an object with the property set, the others kept.
SetField(v, key, value) ==
    JObj([k \in DOMAIN v.o \cup {key} |-> IF k = key THEN value ELSE v.o[k]])

\* The JSON form of a badge: a string, or null.
JBadge(badge) == IF badge = NoBadge THEN JNull ELSE JStr(badge)

\* calculateBadgeAndTotal on the value of a scores property: an object is
\* summed over its keys; a number has no keys and no properties.
ScoreOf(scoresValue) ==
    calculateBadgeAndTotal(IF scoresValue.t = "obj" THEN scoresValue.o ELSE <<>>)

(***************************************************************************)
(* The responses the upstream may resolve with (choices[0].message.content)*)
(***************************************************************************)

\* A scoring report at full marks, with the model's own total and badge.
ScoredFullContent ==
    JsonText(JObj([scores |-> JObj(FullMarks), total |-> JNum(90),
                   badge |-> JStr(FeatureArchitect)]))

\* A scoring report with no total and no badge.
ScoredRiskContent == JsonText(JObj([scores |-> JObj(RiskOnly)]))

\* A report whose scores property is the number 0.
ZeroScoresContent ==
    JsonText(JObj([scores |-> JNum(0), total |-> JNum(90),
                   badge |-> JStr(FeatureArchitect)]))

\* A drafted ticket: JSON without a scores property.
DraftContent == JsonText(JObj([title |-> JStr("Add login")]))

\* Text that is not JSON.
ProseContent == PlainText(<<"Sorry", ",", "I", "cannot", "help", ".">>)

Contents ==
    {ScoredFullContent, ScoredRiskContent, ZeroScoresContent, DraftContent,
     ProseContent}

Responses == [content : Contents]

(***************************************************************************)
(* Input strings: trim, toLowerCase, startsWith, slice                     *)
(***************************************************************************)

IsSpace(c) == c \in {" ", "\n"}

RECURSIVE TrimStart(_)
TrimStart(s) ==
    IF s # <<>> /\ IsSpace(Head(s)) THEN TrimStart(Tail(s)) ELSE s

RECURSIVE TrimEnd(_)
TrimEnd(s) ==
    IF s # <<>> /\ IsSpace(s[Len(s)])
    THEN TrimEnd(SubSeq(s, 1, Len(s) - 1))
    ELSE s

\* A mutant of Trim: only the leading whitespace is removed.
Trim_LeadingOnly(s) == TrimStart(s)

\* String.prototype.trim
Trim(s) == TrimEnd(TrimStart(s))

\* The lower-case form of one character (the letters the inputs use).
LowerChar(c) ==
    CASE c = "D" -> "d" [] c = "R" -> "r" [] c = "A" -> "a" [] c = "F" -> "f"
      [] c = "T" -> "t" [] c = "S" -> "s" [] c = "C" -> "c" [] c = "O" -> "o"
      [] c = "E" -> "e" [] c = "B" -> "b"
      [] OTHER -> c

\* String.prototype.toLowerCase
RECURSIVE ToLowerCase(_)
ToLowerCase(s) ==
    IF s = <<>> THEN <<>> ELSE <<LowerChar(Head(s))>> \o ToLowerCase(Tail(s))

\* String.prototype.startsWith
StartsWith(s, prefix) ==
    Len(s) >= Len(prefix) /\ SubSeq(s, 1, Len(prefix)) = prefix

\* A mutant of Slice: nothing is cut off.
Slice_KeepAll(s, n) == s

\* s.slice(n) for 0 <= n
Slice(s, n) == SubSeq(s, n + 1, Len(s))

(***************************************************************************)
(* sendMessage, first part: the mode and the outgoing messages             *)
(* (part_000 lines 113-162)                                                *)
(***************************************************************************)

DraftPrefix == <<"d", "r", "a", "f", "t", ":">>
ScorePrefix == <<"s", "c", "o", "r", "e", ":">>

\* cleanedInput.slice(6)
PrefixLength == 6

\* The fixed texts, one token each.
SystemBase == <<"You are Jironaut, a Jira co-pilot.">>
ScoreRubric == <<"Score tickets against 8 criteria (total 100 points)">>
DraftPrompt == <<"Draft a Jira ticket from the following brief.">>
ScorePrompt == <<"Evaluate the following Jira ticket:">>
UnsupportedPrompt ==
    <<"Only Jira-related drafting and scoring tasks are supported.">>

\* The mode chosen for an input value, with the system content, the task
\* instruction and the cleaned input that go with it.
Classify(value) ==
    LET trimmed == Trim(value)
        lower == ToLowerCase(trimmed)
    IN  IF StartsWith(lower, DraftPrefix)
        THEN [mode |-> "Draft", system |-> SystemBase,
              modePrompt |-> DraftPrompt,
              cleanedInput |-> Trim(Slice(trimmed, PrefixLength))]
        ELSE IF StartsWith(lower, ScorePrefix)
        THEN [mode |-> "Score", system |-> SystemBase \o ScoreRubric,
              modePrompt |-> ScorePrompt,
              cleanedInput |-> Trim(Slice(trimmed, PrefixLength))]
        ELSE [mode |-> "Unsupported", system |-> SystemBase,
              modePrompt |-> UnsupportedPrompt,
              cleanedInput |-> trimmed]

Message(role, content) == [role |-> role, content |-> content]

\* `${modePrompt}\n\n${cleanedInput}`
UserContent(modePrompt, cleanedInput) ==
    PlainText(modePrompt \o <<"\n", "\n">> \o cleanedInput)

\* A mutant of NonSystem: the history is passed on unfiltered.
NonSystem_KeepAll(msgs) == msgs

\* messages.filter((m) => m.role !== "system")
NonSystem(msgs) == SelectSeq(msgs, LAMBDA m : m.role # "system")

\* A mutant of NewMessages: the history is left out.
NewMessages_NoHistory(msgs, value) ==
    LET c == Classify(value)
    IN  <<Message("system", PlainText(c.system)),
          Message("user", UserContent(c.modePrompt, c.cleanedInput))>>

\* const newMessages = [systemMessage, ...non-system history, user message]
NewMessages(msgs, value) ==
    LET c == Classify(value)
    IN  <<Message("system", PlainText(c.system))>> \o NonSystem(msgs)
            \o <<Message("user", UserContent(c.modePrompt, c.cleanedInput))>>

(***************************************************************************)
(* The result cache in localStorage (part_000 lines 46-55)                 *)
(***************************************************************************)

\* localStorage.getItem of a missing item
NullItem == [kind |-> "null"]

\* What reading a missing property gives.
Undefined == [kind |-> "undefined"]

\* A member inherited from Object.prototype (a function, not a string).
InheritedMember == [kind |-> "function"]

\* Keys every object inherits from Object.prototype.
ObjectPrototypeKeys ==
    {<<"c", "o", "n", "s", "t", "r", "u", "c", "t", "o", "r">>,
     <<"t", "o", "S", "t", "r", "i", "n", "g">>}

\* The key whose assignment sets the prototype instead of a property.
ProtoKey == <<"_", "_", "p", "r", "o", "t", "o", "_", "_">>

\* JSON.parse(localStorage.getItem("jironautCache") || "{}")
LoadCache(store) ==
    JSONparse(IF store.kind = "null" THEN JsonText(JObj(<<>>)) ELSE store).value

\* A mutant of getCachedResult: the lookup never finds an entry.
getCachedResult_AlwaysMiss(store, key) == Undefined

\* return cache[input]: the own property, else an inherited member, else undefined
getCachedResult(store, key) ==
    LET cache == LoadCache(store)
    IN  IF key \in DOMAIN cache.o THEN cache.o[key]
        ELSE IF key \in ObjectPrototypeKeys THEN InheritedMember
        ELSE Undefined

\* A mutant of setCachedResult: the item is written back without the entry.
setCachedResult_NoEntry(store, key, result) == JSONstringify(LoadCache(store))

\* A mutant of setCachedResult: the item is replaced by the new entry alone.
setCachedResult_Fresh(store, key, result) ==
    JSONstringify(SetField(JObj(<<>>), key, result))

\* cache[input] = result; localStorage.setItem(..., JSON.stringify(cache))
setCachedResult(store, key, result) ==
    LET cache == LoadCache(store)
    IN  JSONstringify(IF key = ProtoKey THEN cache
                      ELSE SetField(cache, key, result))

\* A mutant of IsTruthy: the cached value is never taken.
IsTruthy_Never(v) == FALSE

\* if (cached): a non-empty string or any object
IsTruthy(v) ==
    CASE v.kind = "undefined" -> FALSE
      [] v.kind = "null" -> FALSE
      [] v.kind = "text" -> v.chars # <<>>
      [] OTHER -> TRUE

\* The entries of the cache: cleaned input -> stored text.
CacheEntries(store) == LoadCache(store).o

(***************************************************************************)
(* sendMessage, second part: after chatWithRetry (part_000 lines 172-208)  *)
(***************************************************************************)

QuotaExceededText ==
    PlainText(<<"OpenAI says your quota is exceeded. Add a payment method or top up credits.">>)
TooQuicklyText ==
    PlainText(<<"We're sending requests too quickly. Please wait a moment and try again.">>)

\* const humanMessage = String(err?.message || "").includes("billing") ? ... : ...
FallbackMessage(err) ==
    IF Includes(MessageOf(err), BillingWord)
    THEN QuotaExceededText
    ELSE TooQuicklyText

\* A mutant of CatchClause: only a billing error is handled, another one is
\* rethrown.
CatchClause_BillingOnly(err) ==
    [rethrow |-> ~Includes(MessageOf(err), BillingWord),
     content |-> QuotaExceededText]

\* catch (err) { ... }: every error is caught, none is rethrown.
CatchClause(err) == [rethrow |-> FALSE, content |-> FallbackMessage(err)]

\* The TypeError of response.choices[0] on an undefined response.
TypeErrorValue ==
    [status |-> 0,
     message |-> <<"Cannot", "read", "properties", "of", "undefined">>]

\* The inner try: JSON.parse(aiMessage) succeeds and parsed.scores is truthy.
\* A SyntaxError, or the TypeError of reading .scores of null, is swallowed.
IsScored(aiMessage) ==
    LET parsed == JSONparse(aiMessage)
    IN  /\ parsed.ok
        /\ HasField(parsed.value, "scores")
        /\ Truthy(parsed.value.o["scores"])

\* A mutant of FinalMessage: the model's own total and badge are kept.
FinalMessage_KeepModelTotals(aiMessage) ==
    LET parsed == JSONparse(aiMessage).value
        r == ScoreOf(parsed.o["scores"])
        withTotal == IF HasField(parsed, "total") THEN parsed
                     ELSE SetField(parsed, "total", JNum(r.total))
        withBadge == IF HasField(withTotal, "badge") THEN withTotal
                     ELSE SetField(withTotal, "badge", JBadge(r.badge))
    IN  JSONstringify(withBadge)

\* A mutant of FinalMessage: the badge the model returned is kept.
FinalMessage_KeepModelBadge(aiMessage) ==
    LET parsed == JSONparse(aiMessage).value
        r == ScoreOf(parsed.o["scores"])
        withTotal == SetField(parsed, "total", JNum(r.total))
    IN  JSONstringify(IF HasField(withTotal, "badge") THEN withTotal
                      ELSE SetField(withTotal, "badge", JBadge(r.badge)))

\* parsed.total = total; parsed.badge = badge; JSON.stringify(parsed)
FinalMessage(aiMessage) ==
    LET parsed == JSONparse(aiMessage).value
        r == ScoreOf(parsed.o["scores"])
    IN  JSONstringify(
            SetField(SetField(parsed, "total", JNum(r.total)),
                     "badge", JBadge(r.badge)))

RemoveAt(s, i) == SubSeq(s, 1, i - 1) \o SubSeq(s, i + 1, Len(s))

NoOutcome ==
    [path |-> "none", err |-> NoError, received |-> [kind |-> "none"],
     key |-> <<>>]

\* A mutant of Resume: the raw response is written to the cache as well.
Resume_CacheRaw(i, c) ==
    LET p == procs[i]
        thrown == c.pc = "threw" \/ c.ret = UndefinedResponse
        err == IF c.pc = "threw" THEN c.err ELSE TypeErrorValue
        aiMessage == c.ret.content
        caught == CatchClause(err)
    IN  IF ~cwDone(c)
        THEN /\ procs' = [procs EXCEPT ![i].cw = c]
             /\ UNCHANGED <<messages, input, isLoading, storage, submits,
                            lastOutcome, uncaught>>
        ELSE /\ procs' = RemoveAt(procs, i)
             /\ isLoading' = FALSE                       \* finally
             /\ UNCHANGED <<input, submits>>
             /\ IF thrown
                THEN /\ IF caught.rethrow
                        THEN /\ uncaught' = Append(uncaught, err)
                             /\ UNCHANGED messages
                        ELSE /\ messages' = Append(p.newMessages,
                                    Message("assistant", caught.content))
                             /\ UNCHANGED uncaught
                     /\ lastOutcome' = [path |-> "fallback", err |-> err,
                                        received |-> [kind |-> "none"],
                                        key |-> p.cleanedInput]
                     /\ UNCHANGED storage
                ELSE IF IsScored(aiMessage)
                THEN /\ messages' = Append(p.newMessages,
                            Message("assistant", FinalMessage(aiMessage)))
                     /\ storage' = setCachedResult(storage, p.cleanedInput,
                                                   FinalMessage(aiMessage))
                     /\ lastOutcome' = [path |-> "scored", err |-> NoError,
                                        received |-> aiMessage,
                                        key |-> p.cleanedInput]
                     /\ UNCHANGED uncaught
                ELSE /\ messages' = Append(p.newMessages,
                            Message("assistant", aiMessage))
                     /\ lastOutcome' = [path |-> "raw", err |-> NoError,
                                        received |-> aiMessage,
                                        key |-> p.cleanedInput]
                     /\ storage' = setCachedResult(storage, p.cleanedInput,
                                                   aiMessage)
                     /\ UNCHANGED uncaught

\* sendMessage resumes after await chatWithRetry(...) settled as c, in the
\* invocation procs[i]; while chatWithRetry is still suspended only its state
\* is kept.
Resume(i, c) ==
    LET p == procs[i]
        thrown == c.pc = "threw" \/ c.ret = UndefinedResponse
        err == IF c.pc = "threw" THEN c.err ELSE TypeErrorValue
        aiMessage == c.ret.content
        caught == CatchClause(err)
    IN  IF ~cwDone(c)
        THEN /\ procs' = [procs EXCEPT ![i].cw = c]
             /\ UNCHANGED <<messages, input, isLoading, storage, submits,
                            lastOutcome, uncaught>>
        ELSE /\ procs' = RemoveAt(procs, i)
             /\ isLoading' = FALSE                       \* finally
             /\ UNCHANGED <<input, submits>>
             /\ IF thrown
                THEN /\ IF caught.rethrow
                        THEN /\ uncaught' = Append(uncaught, err)
                             /\ UNCHANGED messages
                        ELSE /\ messages' = Append(p.newMessages,
                                    Message("assistant", caught.content))
                             /\ UNCHANGED uncaught
                     /\ lastOutcome' = [path |-> "fallback", err |-> err,
                                        received |-> [kind |-> "none"],
                                        key |-> p.cleanedInput]
                     /\ UNCHANGED storage
                ELSE IF IsScored(aiMessage)
                THEN /\ messages' = Append(p.newMessages,
                            Message("assistant", FinalMessage(aiMessage)))
                     /\ storage' = setCachedResult(storage, p.cleanedInput,
                                                   FinalMessage(aiMessage))
                     /\ lastOutcome' = [path |-> "scored", err |-> NoError,
                                        received |-> aiMessage,
                                        key |-> p.cleanedInput]
                     /\ UNCHANGED uncaught
                ELSE /\ messages' = Append(p.newMessages,
                            Message("assistant", aiMessage))
                     /\ lastOutcome' = [path |-> "raw", err |-> NoError,
                                        received |-> aiMessage,
                                        key |-> p.cleanedInput]
                     /\ UNCHANGED <<storage, uncaught>>

(***************************************************************************)
(* sendMessage, from the call to the first await (part_000 lines 110-178)  *)
(***************************************************************************)

\* A mutant of Accepts: the guard is left out.
Accepts_Always(value, loading) == TRUE

\* if (!input.trim() || isLoading) return;
Accepts(value, loading) == Trim(value) # <<>> /\ ~loading

\* A mutant of LoadingOnMiss: setIsLoading(true) is left out.
LoadingOnMiss_Dropped == FALSE

\* setIsLoading(true) (line 170)
LoadingOnMiss == TRUE

sendMessage ==
    IF ~Accepts(input, isLoading)
    THEN UNCHANGED appVars
    ELSE LET c == Classify(input)
             newMessages == NewMessages(messages, input)
             cached == getCachedResult(storage, c.cleanedInput)
         IN  /\ input' = <<>>
             /\ submits' = submits + 1
             /\ IF IsTruthy(cached)
                THEN /\ messages' = Append(newMessages,
                                           Message("assistant", cached))
                     /\ lastOutcome' = [path |-> "hit", err |-> NoError,
                                        received |-> [kind |-> "none"],
                                        key |-> c.cleanedInput]
                     /\ UNCHANGED <<isLoading, storage, procs, uncaught>>
                ELSE /\ messages' = newMessages
                     /\ isLoading' = LoadingOnMiss
                     /\ procs' = Append(procs,
                            [newMessages |-> newMessages,
                             cleanedInput |-> c.cleanedInput,
                             cw |-> chatWithRetry(DefaultRetries,
                                                  DefaultBaseDelayMs)])
                     /\ UNCHANGED <<storage, lastOutcome, uncaught>>

(***************************************************************************)
(* Initial values                                                          *)
(***************************************************************************)

NoResult == [total |-> 0, badge |-> NoBadge]

\* The value of retryCall while no chatWithRetry invocation of SpecRetry exists.
IdleCw == [pc |-> "idle"]

ScoreIdle == scoreIn = <<>> /\ scoreOut = NoResult /\ scoreDone = FALSE

NoClass == [mode |-> "none"]

\* The value of ignoredCall while no such call was made.
NoIgnoredCall == [called |-> FALSE, empty |-> FALSE, loading |-> FALSE]

ClassIdle == classIn = <<>> /\ classOut = NoClass /\ classDone = FALSE

\* The component after mounting: useState([]), useState(""), useState(false),
\* no cache item in localStorage.
AppInit ==
    /\ messages = <<>>
    /\ input = <<>>
    /\ isLoading = FALSE
    /\ storage = NullItem
    /\ procs = <<>>
    /\ submits = 0
    /\ lastOutcome = NoOutcome
    /\ uncaught = <<>>

(***************************************************************************)
(* SpecScore: the scorer on bounded inputs                                 *)
(***************************************************************************)

\* A key outside the rubric, which the for-in loop still adds to the total.
ExtraKey == "Effort"

ScoreKeys == Criteria \cup {ExtraKey}

\* The point values tried per key; -1 stands for "key absent".  They hold 0,
\* the maximum, values that put each rule on its threshold, and values above
\* the maximum.
ScoreChoices(k) ==
    CASE k = "Title clarity" -> {-1, 0, 5, 10}
      [] k = "Description completeness" -> {-1, 0, 15}
      [] k = "Benefit Hypothesis" -> {-1, 0, 20}
      [] k = "Leading Indicators" -> {-1, 0, 10, 15}
      [] k = "Strategic alignment" -> {-1, 0, 5, 10}
      [] k = "Risk/Impact" -> {-1, 0, 5, 10}
      [] k = "Dependencies" -> {-1, 0, 10, 15}
      [] k = "Scope clarity" -> {-1, 0, 10}
      [] OTHER -> {-1, 5}

\* The mapping holding the keys of choice whose value is not -1.
MkScores(choice) ==
    [k \in {x \in DOMAIN choice : choice[x] >= 0} |-> choice[k]]

InitScore ==
    /\ \E t \in ScoreChoices("Title clarity"),
          d \in ScoreChoices("Description completeness"),
          b \in ScoreChoices("Benefit Hypothesis"),
          l \in ScoreChoices("Leading Indicators"),
          a \in ScoreChoices("Strategic alignment"),
          r \in ScoreChoices("Risk/Impact"),
          p \in ScoreChoices("Dependencies"),
          s \in ScoreChoices("Scope clarity"),
          e \in ScoreChoices(ExtraKey) :
            scoreIn = MkScores(
                [k \in ScoreKeys |->
                    CASE k = "Title clarity" -> t
                      [] k = "Description completeness" -> d
                      [] k = "Benefit Hypothesis" -> b
                      [] k = "Leading Indicators" -> l
                      [] k = "Strategic alignment" -> a
                      [] k = "Risk/Impact" -> r
                      [] k = "Dependencies" -> p
                      [] k = "Scope clarity" -> s
                      [] OTHER -> e])
    /\ scoreOut = NoResult
    /\ scoreDone = FALSE
    /\ ClassIdle
    /\ retryCall = IdleCw
    /\ AppInit
    /\ ignoredCall = NoIgnoredCall

\* The call calculateBadgeAndTotal(scores) returns.
ScoreCall ==
    /\ ~scoreDone
    /\ scoreOut' = calculateBadgeAndTotal(scoreIn)
    /\ scoreDone' = TRUE
    /\ UNCHANGED <<scoreIn, classVars, retryCall, appVars, ignoredCall>>

NextScore == ScoreCall

SpecScore == InitScore /\ [][NextScore]_vars

(***************************************************************************)
(* SpecRetry: one chatWithRetry invocation                                 *)
(***************************************************************************)

\* The largest retries option tried.
MaxRetries == 4

\* The baseDelayMs options tried.
BaseDelays == {100, DefaultBaseDelayMs}

InitRetry ==
    /\ \E r \in 0..MaxRetries, b \in BaseDelays : retryCall = chatWithRetry(r, b)
    /\ ScoreIdle
    /\ ClassIdle
    /\ AppInit
    /\ ignoredCall = NoIgnoredCall

\* The outstanding create() resolves with a response.
RetryResolve ==
    /\ retryCall.pc = "create"
    /\ \E response \in Responses : retryCall' = cwResolve(retryCall, response)
    /\ UNCHANGED <<scoreVars, classVars, appVars, ignoredCall>>

\* The outstanding create() rejects with an error.
RetryReject ==
    /\ retryCall.pc = "create"
    /\ \E err \in UpstreamErrors : retryCall' = cwReject(retryCall, err)
    /\ UNCHANGED <<scoreVars, classVars, appVars, ignoredCall>>

\* The backoff timer fires.
RetryWake ==
    /\ retryCall.pc = "sleep"
    /\ retryCall' = cwWake(retryCall)
    /\ UNCHANGED <<scoreVars, classVars, appVars, ignoredCall>>

NextRetry == RetryResolve \/ RetryReject \/ RetryWake

SpecRetry == InitRetry /\ [][NextRetry]_vars

(***************************************************************************)
(* Spec: the component                                                     *)
(***************************************************************************)

\* The number of submissions followed.
MaxSubmits == 2

\* The values typed into the input field.
Inputs ==
    {<<"d", "r", "a", "f", "t", ":", " ", "a">>,
     <<"S", "c", "o", "r", "e", ":", "a", " ">>,
     <<" ", "a">>,
     <<"s", "c", "o", "r", "e", ":", "b">>,
     <<" ", " ">>}

Init ==
    /\ AppInit
    /\ ignoredCall = NoIgnoredCall
    /\ ScoreIdle
    /\ ClassIdle
    /\ retryCall = IdleCw

\* onChange={(e) => setInput(e.target.value)}; the field is disabled while
\* loading.
TypeInput ==
    /\ ~isLoading
    /\ submits < MaxSubmits
    /\ \E value \in Inputs : input' = value
    /\ UNCHANGED <<messages, isLoading, storage, procs, submits, lastOutcome,
                   uncaught, scoreVars, classVars, retryCall, ignoredCall>>

\* <button onClick={sendMessage} disabled={isLoading}>
ClickSend ==
    /\ ~isLoading
    /\ submits < MaxSubmits
    /\ sendMessage
    /\ UNCHANGED <<scoreVars, classVars, retryCall, ignoredCall>>

\* onKeyDown: if (e.key === "Enter" && !isLoading) sendMessage()
PressEnter ==
    /\ ~isLoading
    /\ submits < MaxSubmits
    /\ sendMessage
    /\ UNCHANGED <<scoreVars, classVars, retryCall, ignoredCall>>

\* The create() call of invocation i resolves with a response.
UpstreamResolve ==
    \E i \in 1..Len(procs) :
        /\ procs[i].cw.pc = "create"
        /\ \E response \in Responses :
              Resume(i, cwResolve(procs[i].cw, response))
        /\ UNCHANGED <<scoreVars, classVars, retryCall, ignoredCall>>

\* The create() call of invocation i rejects with an error.
UpstreamReject ==
    \E i \in 1..Len(procs) :
        /\ procs[i].cw.pc = "create"
        /\ \E err \in UpstreamErrors :
              Resume(i, cwReject(procs[i].cw, err))
        /\ UNCHANGED <<scoreVars, classVars, retryCall, ignoredCall>>

\* The backoff timer of invocation i fires.
TimerFires ==
    \E i \in 1..Len(procs) :
        /\ procs[i].cw.pc = "sleep"
        /\ Resume(i, cwWake(procs[i].cw))
        /\ UNCHANGED <<scoreVars, classVars, retryCall, ignoredCall>>

Next ==
    \/ TypeInput
    \/ ClickSend
    \/ PressEnter
    \/ UpstreamResolve
    \/ UpstreamReject
    \/ TimerFires

Spec == Init /\ [][Next]_vars

(***************************************************************************)
(* SpecClassify: the mode selection on bounded input values                *)
(***************************************************************************)

\* The longest run of whitespace put before, inside and after a value.
MaxPad == 1

\* The whitespace runs of at most n characters.
RECURSIVE Pads(_)
Pads(n) ==
    IF n = 0 THEN {<<>>}
    ELSE Pads(n - 1)
            \cup {<<c>> \o p : c \in {" ", "\n"},
                               p \in {q \in Pads(n - 1) : Len(q) = n - 1}}

\* How a typed value begins: the two prefixes in several letter cases, and
\* near misses.
InputHeads ==
    {<<"d", "r", "a", "f", "t", ":">>,
     <<"D", "r", "a", "f", "t", ":">>,
     <<"D", "R", "A", "F", "T", ":">>,
     <<"d", "R", "a", "F", "t", ":">>,
     <<"s", "c", "o", "r", "e", ":">>,
     <<"S", "c", "o", "r", "e", ":">>,
     <<"S", "C", "O", "R", "E", ":">>,
     <<"d", "r", "a", "f", "t">>,
     <<"d", "r", "a", "f", "t", "s", ":">>,
     <<"s", "c", "o", "r", "e">>,
     <<"s", "c", "o", "r", "e", "d", ":">>,
     <<"r", "a", "f", "t", ":">>,
     <<"d", "r", "a", "f", "t", " ", ":">>,
     <<"d", " ", "r", "a", "f", "t", ":">>,
     <<>>}

\* What follows: nothing, a brief, a brief with inner whitespace, and briefs
\* that begin with a prefix themselves.
InputBodies ==
    {<<>>,
     <<"a">>,
     <<"a", " ", "b">>,
     <<"s", "c", "o", "r", "e", ":", "b">>,
     <<"D", "r", "a", "f", "t", ":", " ", "a">>}

InitClassify ==
    /\ \E lead \in Pads(MaxPad), head \in InputHeads, mid \in Pads(MaxPad),
          body \in InputBodies, trail \in Pads(MaxPad) :
            classIn = lead \o head \o mid \o body \o trail
    /\ classOut = NoClass
    /\ classDone = FALSE
    /\ ScoreIdle
    /\ retryCall = IdleCw
    /\ AppInit
    /\ ignoredCall = NoIgnoredCall

\* The mode selection of sendMessage (lines 119-154) runs on the value; a
\* value that is empty once trimmed returns before it (line 111).
ClassifyCall ==
    /\ ~classDone
    /\ Accepts(classIn, FALSE)
    /\ classOut' = Classify(classIn)
    /\ classDone' = TRUE
    /\ UNCHANGED <<classIn, scoreVars, retryCall, appVars, ignoredCall>>

NextClassify == ClassifyCall

SpecClassify == InitClassify /\ [][NextClassify]_vars

(***************************************************************************)
(* SpecLive: the component with an upstream that answers every call and    *)
(* timers that fire                                                        *)
(***************************************************************************)

\* The promise of create() settles, one way or the other.
UpstreamSettles == UpstreamResolve \/ UpstreamReject

\* Every create() call eventually resolves or rejects, and every setTimeout
\* callback eventually runs.
Fairness == WF_vars(UpstreamSettles) /\ WF_vars(TimerFires)

SpecLive == Init /\ [][Next]_vars /\ Fairness

(***************************************************************************)
(* SpecGuard: the component, with sendMessage also called while the guard  *)
(* of line 111 is to turn the call down                                    *)
(***************************************************************************)

\* sendMessage() is called while the trimmed input is empty or the loading
\* flag is set (the button and the Enter handler make no such call while
\* loading; the guard of line 111 is what the function itself does).
GuardedCall ==
    /\ submits < MaxSubmits
    /\ Trim(input) = <<>> \/ isLoading
    /\ sendMessage
    /\ ignoredCall' = [called |-> TRUE, empty |-> Trim(input) = <<>>,
                       loading |-> isLoading]
    /\ UNCHANGED <<scoreVars, classVars, retryCall>>

NextGuard ==
    \/ TypeInput
    \/ ClickSend
    \/ PressEnter
    \/ UpstreamResolve
    \/ UpstreamReject
    \/ TimerFires
    \/ GuardedCall

SpecGuard == Init /\ [][NextGuard]_vars

(***************************************************************************)
(* Claims about the scorer (checked under SpecScore)                       *)
(***************************************************************************)

\* The value a key contributes when an absent key counts as 0.
PointsOrZero(scores, k) == IF k \in DOMAIN scores THEN scores[k] ELSE 0

\* The four badge rules as the rubric states them, numbered in their order.
RuleMatches(scores, total, n) ==
    CASE n = 1 -> PointsOrZero(scores, "Benefit Hypothesis")
                    + PointsOrZero(scores, "Strategic alignment")
                    + PointsOrZero(scores, "Leading Indicators") >= 40
      [] n = 2 -> total >= 85
      [] n = 3 -> PointsOrZero(scores, "Title clarity")
                    + PointsOrZero(scores, "Description completeness")
                    + PointsOrZero(scores, "Scope clarity") >= 30
      [] n = 4 -> PointsOrZero(scores, "Risk/Impact")
                    + PointsOrZero(scores, "Dependencies") >= 15
      [] OTHER -> FALSE

RuleLabel(n) ==
    CASE n = 1 -> VisionaryThinker
      [] n = 2 -> FeatureArchitect
      [] n = 3 -> ClarityChampion
      [] n = 4 -> RiskWrangler
      [] OTHER -> NoBadge

MatchedRules(scores, total) == {n \in 1..4 : RuleMatches(scores, total, n)}

\* The label of the highest-numbered matching rule, null when none matches.
LastMatchLabel(scores, total) ==
    LET m == MatchedRules(scores, total)
    IN  IF m = {} THEN NoBadge
        ELSE RuleLabel(CHOOSE n \in m : \A o \in m : o <= n)

\* C8 as stated: with every criterion at its maximum (total 100) the scorer
\* returns total 100 and the badge "Feature Architect".
C8_Original ==
    (scoreDone /\ scoreIn = FullMarks)
        => (scoreOut.total = 100 /\ scoreOut.badge = FeatureArchitect)

\* C8 amended: with every criterion at its maximum (total 100) the scorer
\* returns total 100 and the badge "Risk Wrangler": the clarity rule and then
\* the risk rule, both matching, overwrite "Feature Architect".
C8_FullMarksBadge ==
    (scoreDone /\ scoreIn = FullMarks)
        => (scoreOut.total = 100 /\ scoreOut.badge = RiskWrangler)

C8_Witness == scoreDone /\ scoreIn = FullMarks

\* C9: the badge returned is the label of the LAST matching rule in the order
\* benefit >= 40, total >= 85, clarity >= 30, risk+dependencies >= 15; so
\* risk+dependencies >= 15 always gives "Risk Wrangler", and Risk/Impact 10,
\* Dependencies 10, all else 0 gives total 20 and "Risk Wrangler".
C9_LastMatchWins ==
    scoreDone =>
        /\ scoreOut.badge = LastMatchLabel(scoreIn, scoreOut.total)
        /\ (PointsOrZero(scoreIn, "Risk/Impact")
                + PointsOrZero(scoreIn, "Dependencies") >= 15)
              => scoreOut.badge = RiskWrangler
        /\ scoreIn = RiskOnly
              => (scoreOut.total = 20 /\ scoreOut.badge = RiskWrangler)

\* Several rules match and the last one in the order is the one kept.
C9_Witness ==
    /\ scoreDone
    /\ MatchedRules(scoreIn, scoreOut.total) = {1, 2, 3, 4}
    /\ scoreOut.badge = RiskWrangler

\* The mapping with every absent criterion written out as 0.
FillAbsent(scores) ==
    [k \in Criteria \cup DOMAIN scores |-> PointsOrZero(scores, k)]

\* C10: the empty mapping gives total 0 and a null badge; a mapping lacking
\* criteria gives what the same mapping with the absent criteria set to 0
\* gives (a total and a badge are always returned); and the badge is null
\* whenever none of the four rules matches.
C10_MissingKeysAreZero ==
    scoreDone =>
        /\ scoreIn = <<>> => scoreOut = [total |-> 0, badge |-> NoBadge]
        /\ scoreOut = calculateBadgeAndTotal(FillAbsent(scoreIn))
        /\ scoreOut.total \in Int
        /\ scoreOut.badge \in BadgeLabels \cup {NoBadge}
        /\ MatchedRules(scoreIn, scoreOut.total) = {}
              => scoreOut.badge = NoBadge

C10_Witness == scoreDone /\ scoreIn = <<>> /\ scoreOut.badge = NoBadge

(***************************************************************************)
(* Claims about chatWithRetry (checked under SpecRetry)                    *)
(***************************************************************************)

\* An attempt that failed with status 429 and no billing phrase.
RateLimited(o) ==
    ~o.ok /\ o.err.status = 429 /\ ~Includes(o.err.message, BillingPhrase)

\* An attempt that failed with a message carrying the billing phrase.
BillingFailure(o) == ~o.ok /\ Includes(o.err.message, BillingPhrase)

AllRateLimited(c) ==
    \A i \in 1..Len(c.outcomes) : RateLimited(c.outcomes[i])

\* C1: when every attempt fails with status 429 (no billing phrase), exactly
\* retries+1 calls are made (4 with the default 3), the wait after call k
\* (k = 0..retries-1) is baseDelayMs * 2^k, and after the last call the
\* operation fails with that call's error.
C1_RateLimitExhaustion ==
    AllRateLimited(retryCall) =>
        LET n == Len(retryCall.outcomes)
            R == retryCall.retries
            B == retryCall.baseDelayMs
        IN  /\ n <= R + 1
            /\ \A k \in 0..(Len(retryCall.delays) - 1) :
                  retryCall.delays[k + 1] = B * (2 ^ k)
            /\ IF n = R + 1
               THEN /\ retryCall.pc = "threw"
                    /\ retryCall.err = retryCall.outcomes[n].err
                    /\ retryCall.calls = R + 1
                    /\ Len(retryCall.delays) = R
                    /\ R = 3 => retryCall.calls = 4
               ELSE /\ retryCall.pc \in {"create", "sleep"}
                    /\ Len(retryCall.delays) = n
                    /\ retryCall.calls
                          = IF retryCall.pc = "create" THEN n + 1 ELSE n

\* The default options, every attempt rate limited, the operation failed.
C1_Witness ==
    /\ retryCall.pc = "threw"
    /\ AllRateLimited(retryCall)
    /\ retryCall.retries = 3
    /\ retryCall.calls = 4
    /\ retryCall.delays = <<800, 1600, 3200>>

\* C2: a failure whose message carries the billing phrase is never retried:
\* on whichever attempt it occurs it is the last one, the operation has
\* failed with the BillingExceeded error (which is no upstream error), no
\* wait followed it and no further call was made; on the first attempt that
\* is exactly 1 call.
C2_BillingNeverRetried ==
    \A i \in 1..Len(retryCall.outcomes) :
        BillingFailure(retryCall.outcomes[i]) =>
            /\ i = Len(retryCall.outcomes)
            /\ retryCall.pc = "threw"
            /\ retryCall.err = BillingExceededError
            /\ retryCall.err \notin UpstreamErrors
            /\ retryCall.calls = i
            /\ Len(retryCall.delays) = i - 1

\* A billing failure on the third attempt, after two rate-limit retries.
C2_Witness ==
    /\ Len(retryCall.outcomes) = 3
    /\ BillingFailure(retryCall.outcomes[3])
    /\ retryCall.retries > 3
    /\ retryCall.err = BillingExceededError

\* C3: whatever the upstream outcomes, at most retries+1 calls are made, a
\* successful attempt is the last one (no call follows it), and its
\* response is what the invocation returns.
C3_BoundedCallsFirstSuccess ==
    /\ retryCall.calls <= retryCall.retries + 1
    /\ retryCall.calls <= Len(retryCall.outcomes) + 1
    /\ \A i \in 1..Len(retryCall.outcomes) :
          retryCall.outcomes[i].ok =>
              /\ i = Len(retryCall.outcomes)
              /\ retryCall.pc = "returned"
              /\ retryCall.ret = retryCall.outcomes[i].response
              /\ retryCall.calls = i
    /\ retryCall.pc = "returned" =>
          /\ retryCall.outcomes # <<>>
          /\ retryCall.outcomes[Len(retryCall.outcomes)].ok

\* A success on the third call, after two rate-limit retries.
C3_Witness ==
    /\ retryCall.pc = "returned"
    /\ retryCall.calls = 3
    /\ Len(retryCall.outcomes) = 3
    /\ retryCall.ret.content = ScoredFullContent

(***************************************************************************)
(* Claims about the component (checked under Spec)                         *)
(***************************************************************************)

\* The create() calls awaiting the upstream.
OutstandingCalls ==
    Cardinality({i \in 1..Len(procs) : procs[i].cw.pc = "create"})

\* The content of the last message of the conversation.
LastContent == messages[Len(messages)].content

\* C4: a submission whose cleaned input has a cache entry appends the stored
\* text unchanged as the assistant message (it is not scored again), starts
\* no upstream call and leaves the cache and the loading flag alone.
C4_CacheHitSkipsUpstream ==
    [][ (/\ submits' = submits + 1
         /\ Classify(input).cleanedInput \in DOMAIN CacheEntries(storage))
        => (/\ messages' = Append(NewMessages(messages, input),
                  Message("assistant",
                     CacheEntries(storage)[Classify(input).cleanedInput]))
            /\ procs' = procs
            /\ OutstandingCalls' = OutstandingCalls
            /\ storage' = storage
            /\ isLoading' = isLoading) ]_vars

\* A submission answered from the cache with the text stored under its key.
C4_Witness ==
    /\ lastOutcome.path = "hit"
    /\ lastOutcome.key \in DOMAIN CacheEntries(storage)
    /\ LastContent = CacheEntries(storage)[lastOutcome.key]
    /\ procs = <<>>

\* C5: at most one sendMessage pipeline is in flight and at most one
\* upstream call is outstanding; while a submission is pending (in an
\* upstream call or in a backoff wait) no further submission is accepted.
C5_SingleFlight ==
    [][ /\ Len(procs) <= 1 /\ Len(procs') <= 1
        /\ OutstandingCalls <= 1 /\ OutstandingCalls' <= 1
        /\ Len(procs) > 0 => submits' = submits ]_vars

\* A submission pending in a backoff wait, with the loading flag set.
C5_Witness ==
    /\ Len(procs) = 1
    /\ procs[1].cw.pc = "sleep"
    /\ isLoading

\* C6: when chatWithRetry throws (BillingExceeded, an exhausted rate limit,
\* any other error), sendMessage ends by appending one assistant message
\* holding one of the two fixed fallback texts, clears the loading flag, and
\* no error leaves sendMessage.
C6_FailuresBecomeFallback ==
    [][ /\ uncaught = <<>>
        /\ uncaught' = <<>>
        /\ (lastOutcome'.path = "fallback" /\ Len(procs') < Len(procs))
              => (/\ \E t \in {QuotaExceededText, TooQuicklyText} :
                        messages' = Append(messages, Message("assistant", t))
                  /\ lastOutcome'.err \in UpstreamErrors \cup {BillingExceededError}
                  /\ ~isLoading') ]_vars

\* A BillingExceeded failure shown as the quota fallback text.
C6_Witness ==
    /\ lastOutcome.path = "fallback"
    /\ lastOutcome.err = BillingExceededError
    /\ procs = <<>>
    /\ LastContent = QuotaExceededText
    /\ messages[Len(messages)].role = "assistant"

\* The total and badge of text are those calculateBadgeAndTotal gives for
\* the scores value.
TotalsMatch(text, scoresValue) ==
    LET v == JSONparse(text)
        r == ScoreOf(scoresValue)
    IN  /\ v.ok
        /\ HasField(v.value, "total")
        /\ HasField(v.value, "badge")
        /\ v.value.o["total"] = JNum(r.total)
        /\ v.value.o["badge"] = JBadge(r.badge)

\* The last submission went upstream and has ended with a response.
AnsweredUpstream == procs = <<>> /\ lastOutcome.path \in {"scored", "raw"}

\* The scores property of the response the last submission received.
ReceivedScores == JSONparse(lastOutcome.received).value.o["scores"]

C11_Original ==
    scoreDone =>
        /\ scoreOut.total \in 0..totalPoints
        /\ scoreOut.badge \in BadgeLabels \cup {NoBadge}

\* A mapping with a value above its criterion's maximum, or a key outside the
\* rubric, has been scored and the total left 0..100.
C11_Witness ==
    /\ scoreDone
    /\ \/ \E k \in DOMAIN scoreIn \cap Criteria : scoreIn[k] > MaxPoints(k)
       \/ ExtraKey \in DOMAIN scoreIn
    /\ scoreOut.total > totalPoints

(***************************************************************************)
(* Claims on the failures chatWithRetry propagates (SpecRetry)             *)
(***************************************************************************)

\* An attempt that failed with neither the billing phrase nor status 429.
OtherFailure(o) ==
    ~o.ok /\ o.err.status # 429 /\ ~Includes(o.err.message, BillingPhrase)

\* C14: a failure that is neither a billing failure nor a 429 failure is
\* never retried: the attempt it ends is the last one, no wait and no call
\* follow it and the operation has failed with that very error; a 429
\* failure (no billing phrase) on the last attempt, attempt = retries, is
\* propagated the same way.
C14_OtherFailuresPropagate ==
    \A i \in 1..Len(retryCall.outcomes) :
        LET o == retryCall.outcomes[i]
        IN  (OtherFailure(o) \/ (RateLimited(o) /\ i - 1 = retryCall.retries))
                => /\ i = Len(retryCall.outcomes)
                   /\ retryCall.pc = "threw"
                   /\ retryCall.err = o.err
                   /\ retryCall.err \in UpstreamErrors
                   /\ retryCall.calls = i
                   /\ Len(retryCall.delays) = i - 1

\* A status-500 failure on the second attempt of a call that could have
\* retried twice more has ended the operation.
C14_Witness ==
    /\ retryCall.pc = "threw"
    /\ retryCall.retries = 3
    /\ Len(retryCall.outcomes) = 2
    /\ OtherFailure(retryCall.outcomes[2])
    /\ retryCall.calls = 2
    /\ retryCall.delays = <<retryCall.baseDelayMs>>

(***************************************************************************)
(* Claims on the mode selection (SpecClassify)                             *)
(***************************************************************************)

\* The upper-case form of a letter of the two prefixes.
UpperOf(c) ==
    CASE c = "d" -> "D" [] c = "r" -> "R" [] c = "a" -> "A" [] c = "f" -> "F"
      [] c = "t" -> "T" [] c = "s" -> "S" [] c = "c" -> "C" [] c = "o" -> "O"
      [] c = "e" -> "E"
      [] OTHER -> c

\* s begins with prefix, letter case ignored.
StartsWithAnyCase(s, prefix) ==
    /\ Len(s) >= Len(prefix)
    /\ \A i \in 1..Len(prefix) : s[i] \in {prefix[i], UpperOf(prefix[i])}

AllSpace(s) == \A i \in 1..Len(s) : s[i] \in {" ", "\n"}

\* The position of the first character of s that is no whitespace, and of
\* the last one.
InkStart(s) ==
    IF AllSpace(s) THEN Len(s) + 1
    ELSE CHOOSE i \in 1..Len(s) :
            s[i] \notin {" ", "\n"} /\ AllSpace(SubSeq(s, 1, i - 1))

InkEnd(s) ==
    IF AllSpace(s) THEN Len(s)
    ELSE CHOOSE j \in 1..Len(s) :
            s[j] \notin {" ", "\n"} /\ AllSpace(SubSeq(s, j + 1, Len(s)))

\* s without its leading and trailing whitespace.
TrimmedForm(s) == SubSeq(s, InkStart(s), InkEnd(s))

\* What the claims expect of the selection for a value with trimmed form t.
ExpectedClass(out, t) ==
    IF StartsWithAnyCase(t, DraftPrefix)
    THEN /\ out.mode = "Draft"
         /\ out.modePrompt = DraftPrompt
         /\ out.cleanedInput = TrimmedForm(SubSeq(t, 7, Len(t)))
    ELSE IF StartsWithAnyCase(t, ScorePrefix)
    THEN /\ out.mode = "Score"
         /\ out.modePrompt = ScorePrompt
         /\ out.cleanedInput = TrimmedForm(SubSeq(t, 7, Len(t)))
    ELSE /\ out.mode = "Unsupported"
         /\ out.modePrompt = UnsupportedPrompt
         /\ out.cleanedInput = t

HasPrefix(t) ==
    StartsWithAnyCase(t, DraftPrefix) \/ StartsWithAnyCase(t, ScorePrefix)

\* C12: for an input whose trimmed form starts with "draft:" in any letter
\* case the mode is Draft and the cleaned input is the text after the first
\* 6 characters of the trimmed form, without its leading and trailing
\* whitespace; likewise "score:" gives Score; and one mode exactly is chosen
\* (with the task instruction of that mode).
C12_PrefixModes ==
    classDone =>
        /\ classOut.mode \in {"Draft", "Score", "Unsupported"}
        /\ (HasPrefix(TrimmedForm(classIn))
              => ExpectedClass(classOut, TrimmedForm(classIn)))

\* A value in mixed case with whitespace around the value and around the
\* brief has been classified as Draft and one as Score.
C12_Witness ==
    /\ classDone
    /\ classIn = <<" ", "d", "R", "a", "F", "t", ":", "\n", "a", " ", "b", " ">>
    /\ classOut.mode = "Draft"
    /\ classOut.cleanedInput = <<"a", " ", "b">>

\* C13: for an input whose trimmed form starts with neither prefix the
\* mode is Unsupported and the cleaned input is the trimmed form unchanged.
C13_NoPrefixUnsupported ==
    classDone =>
        (~HasPrefix(TrimmedForm(classIn))
            => /\ classOut.mode = "Unsupported"
               /\ classOut.cleanedInput = TrimmedForm(classIn)
               /\ classOut.modePrompt = UnsupportedPrompt)

\* A near miss of a prefix, whitespace around it, has been classified.
C13_Witness ==
    /\ classDone
    /\ classIn = <<" ", "d", "r", "a", "f", "t", " ", ":", " ", "a", "\n">>
    /\ classOut.mode = "Unsupported"
    /\ classOut.cleanedInput = <<"d", "r", "a", "f", "t", " ", ":", " ", "a">>

(***************************************************************************)
(* Claims on the cache, the outgoing request and the Unsupported mode      *)
(* (checked under Spec)                                                    *)
(***************************************************************************)

\* The step is an accepted submission of the value in the input field.
Submitted == submits' = submits + 1

\* The step ends a sendMessage invocation that had gone upstream.
Finished == Len(procs') < Len(procs)

\* The user message the last answered submission sent.
LastUserContent == messages[Len(messages) - 1].content

\* C15 (as stated): the cache is consulted only for Draft and Score
\* submissions; an Unsupported-mode submission is never answered with a
\* cached text.  The lookup at line 164 runs for every mode, so an entry
\* stored under the same cleaned text answers an Unsupported submission.
C15_Original ==
    [][ (Submitted /\ Classify(input).mode = "Unsupported")
            => /\ lastOutcome' = lastOutcome
               /\ messages' = NewMessages(messages, input) ]_vars

\* An Unsupported-mode submission answered from the entry a Score
\* submission of the same text had stored.
C15_Witness ==
    /\ submits = 2
    /\ lastOutcome.path = "hit"
    /\ messages[2].content = UserContent(ScorePrompt, lastOutcome.key)
    /\ LastUserContent = UserContent(UnsupportedPrompt, lastOutcome.key)
    /\ LastContent = CacheEntries(storage)[lastOutcome.key]

\* The response received was no JSON text, or a JSON object without a
\* scores field.
Unscorable(received) ==
    \/ ~JSONparse(received).ok
    \/ ~HasField(JSONparse(received).value, "scores")

\* C16: the cache is written only on the scored path.  A step that changes
\* the cache ends a submission whose response was scored; a submission
\* whose response is no JSON or has no scores field leaves the cache alone
\* and shows the response text as received; one whose client failed leaves
\* the cache alone and shows a fallback text; one answered from the cache
\* leaves the cache alone.
C16_CacheWrittenOnlyWhenScored ==
    [][ /\ storage' # storage
            => (Finished /\ lastOutcome'.path = "scored"
                  /\ ~Unscorable(lastOutcome'.received))
        /\ (Finished /\ lastOutcome'.path # "fallback"
              /\ Unscorable(lastOutcome'.received))
            => (/\ storage' = storage
                /\ messages' = Append(procs[1].newMessages,
                      Message("assistant", lastOutcome'.received)))
        /\ (Finished /\ lastOutcome'.path = "fallback")
            => (/\ storage' = storage
                /\ LastContent' \in {QuotaExceededText, TooQuicklyText})
        /\ Submitted => storage' = storage ]_vars

\* With an entry in the cache, a later submission received a response that
\* is no JSON and the entry is still the only one.
C16_Witness ==
    /\ submits = 2
    /\ procs = <<>>
    /\ lastOutcome.path = "raw"
    /\ lastOutcome.received = ProseContent
    /\ LastContent = ProseContent
    /\ Cardinality(DOMAIN CacheEntries(storage)) = 1
    /\ lastOutcome.key \notin DOMAIN CacheEntries(storage)

\* C17: cache entries are never removed: a key with an entry has one after
\* every step; and a put for one key leaves the entry of every other key as
\* it was.
C17_EntriesNeverRemoved ==
    [][ \A k \in DOMAIN CacheEntries(storage) :
            /\ k \in DOMAIN CacheEntries(storage')
            /\ CacheEntries(storage')[k] # CacheEntries(storage)[k]
                  => (Finished /\ lastOutcome'.path = "scored"
                        /\ k = lastOutcome'.key) ]_vars

\* A second key has been put and the first one is still there.
C17_Witness ==
    /\ submits = 2
    /\ procs = <<>>
    /\ lastOutcome.path = "scored"
    /\ Cardinality(DOMAIN CacheEntries(storage)) = 2

\* The request a step sends: the messages of the payload handed to
\* chatWithRetry by the invocation the step starts.
SentRequest == procs'[Len(procs')].newMessages

\* C18: every outgoing request is one system message built for this
\* request (the base text, with the rubric for Score), then the earlier
\* conversation without its system message, in order, then one user message
\* made of the task instruction, a blank line and the cleaned input; no
\* message after the first is a system message.
C18_RequestShape ==
    [][ Len(procs') > Len(procs)
          => LET c == Classify(input)
                 req == SentRequest
                 n == Len(req)
             IN  /\ n = (IF messages = <<>> THEN 0 ELSE Len(messages) - 1) + 2
                 /\ req[1] = Message("system",
                        PlainText(IF c.mode = "Score"
                                  THEN SystemBase \o ScoreRubric
                                  ELSE SystemBase))
                 /\ \A i \in 2..n : req[i].role # "system"
                 /\ messages # <<>>
                      => (/\ messages[1].role = "system"
                          /\ SubSeq(req, 2, n - 1) = Tail(messages))
                 /\ req[n] = Message("user",
                        PlainText(c.modePrompt \o <<"\n", "\n">>
                                      \o c.cleanedInput)) ]_vars

\* A second request, sent after a Score turn, carries the base system
\* message and the two messages of the first turn.
C18_Witness ==
    /\ submits = 2
    /\ Len(procs) = 1
    /\ messages[1].content = PlainText(SystemBase)
    /\ Len(procs[1].newMessages) = 4
    /\ procs[1].newMessages[2].content
          = UserContent(ScorePrompt, <<"a">>)

\* C19 (as stated): an Unsupported-mode submission with non-empty input
\* results in an upstream call whose user message carries the refusal
\* instruction.  When the cleaned text has a cache entry the submission
\* returns at line 167 and no call is made.
C19_Original ==
    [][ (Submitted /\ Classify(input).mode = "Unsupported")
            => /\ Len(procs') = Len(procs) + 1
               /\ procs'[Len(procs')].cw.pc = "create"
               /\ procs'[Len(procs')].cw.calls = 1
               /\ LET req == SentRequest
                  IN  req[Len(req)]
                        = Message("user",
                              UserContent(UnsupportedPrompt,
                                          Classify(input).cleanedInput)) ]_vars

\* An Unsupported-mode submission whose scored response was cached, and the
\* same text submitted again: answered locally, no call outstanding.
C19_Witness ==
    /\ submits = 2
    /\ lastOutcome.path = "hit"
    /\ procs = <<>>
    /\ messages[2].content = UserContent(UnsupportedPrompt, lastOutcome.key)
    /\ LastUserContent = UserContent(UnsupportedPrompt, lastOutcome.key)

(***************************************************************************)
(* Claims on termination (checked under SpecLive)                          *)
(***************************************************************************)

\* A submission is pending: its invocation is suspended in chatWithRetry.
Pending == Len(procs) > 0

\* No submission is pending, the loading flag is clear and the last one has
\* ended in a terminal state with its message shown.
Settled ==
    /\ procs = <<>>
    /\ ~isLoading
    /\ lastOutcome.path \in {"raw", "scored", "fallback"}
    /\ messages[Len(messages)].role = "assistant"
    /\ lastOutcome.path = "scored"
          => /\ lastOutcome.key \in DOMAIN CacheEntries(storage)
             /\ CacheEntries(storage)[lastOutcome.key] = LastContent

\* C20: if every upstream call eventually returns or fails and every
\* backoff timer eventually fires, every accepted submission that goes
\* upstream eventually reaches a terminal state (response shown, scored
\* response shown and cached, or fallback shown) in which the loading flag
\* is false again, on the scored path that returns early as well.
C20_SubmissionsTerminate == Pending ~> Settled

\* A submission has ended on the scored path: its text is shown and cached
\* and the loading flag is clear again.
C20_Witness ==
    /\ Settled
    /\ lastOutcome.path = "scored"
    /\ submits = 1
    /\ Len(messages) = 3

(***************************************************************************)
(* Claims on the fallback text (checked under Spec)                        *)
(***************************************************************************)

\* The last submission ended in the catch block and its fallback message is
\* the last one of the conversation.
FallbackShown ==
    /\ lastOutcome.path = "fallback"
    /\ messages # <<>>
    /\ messages[Len(messages)].role = "assistant"

\* C21 (as stated): the quota-exceeded text is shown if and only if
\* chatWithRetry ended with BillingExceeded, and the too-many-requests text
\* is shown only when it ended with a status-429 failure.  The catch block
\* looks for the word "billing" in the message and gives the
\* too-many-requests text to every other failure, whatever its status.
C21_Original ==
    FallbackShown =>
        /\ LastContent = QuotaExceededText
              <=> lastOutcome.err = BillingExceededError
        /\ LastContent = TooQuicklyText
              => lastOutcome.err.status = TooManyRequests

\* A failure with a status other than 429 and no word "billing" in its
\* message is shown as the too-many-requests text.
C21_Witness ==
    /\ FallbackShown
    /\ lastOutcome.err.status = 500
    /\ ~Includes(lastOutcome.err.message, BillingWord)
    /\ LastContent = TooQuicklyText

(***************************************************************************)
(* Claims on the cache entries and the conversation (checked under Spec)   *)
(***************************************************************************)

\* The cleaned input of a value: its trimmed form, without a leading
\* "draft:" or "score:" and the whitespace around the rest.
CleanedOf(value) ==
    LET t == TrimmedForm(value)
    IN  IF HasPrefix(t) THEN TrimmedForm(SubSeq(t, 7, Len(t))) ELSE t

\* The task instruction that goes with a value.
PromptOf(value) ==
    LET t == TrimmedForm(value)
    IN  IF StartsWithAnyCase(t, DraftPrefix) THEN DraftPrompt
        ELSE IF StartsWithAnyCase(t, ScorePrefix) THEN ScorePrompt
        ELSE UnsupportedPrompt

\* text is a report with a scores mapping.
ScoredText(text) ==
    /\ text.kind \in {"text", "json"}
    /\ JSONparse(text).ok
    /\ HasField(JSONparse(text).value, "scores")
    /\ JSONparse(text).value.o["scores"].t = "obj"

\* Turn j of the conversation was a submission of the text x under another
\* task instruction than prompt, answered with a scored report.
ScoredUnderOtherMode(j, x, prompt) ==
    /\ messages[j].role = "user"
    /\ messages[j + 1].role = "assistant"
    /\ ScoredText(messages[j + 1].content)
    /\ \E p \in {DraftPrompt, ScorePrompt, UnsupportedPrompt} \ {prompt} :
          messages[j].content = PlainText(p \o <<"\n", "\n">> \o x)

\* C22: the cache key is the cleaned input alone.  Once a submission of a
\* text under one mode was answered with a scored report (which is cached),
\* a submission of the same text under another mode is answered with that
\* stored report and starts no upstream call.
C22_KeySharedAcrossModes ==
    [][ Submitted
          => \A j \in 1..(Len(messages) - 1) :
                ScoredUnderOtherMode(j, CleanedOf(input), PromptOf(input))
                    => /\ messages'[Len(messages')]
                            = Message("assistant", messages[j + 1].content)
                       /\ CacheEntries(storage)[CleanedOf(input)]
                            = messages[j + 1].content
                       /\ procs' = procs
                       /\ OutstandingCalls' = OutstandingCalls
                       /\ isLoading' = isLoading ]_vars

\* A Draft submission of a text was scored, and a Score submission of the
\* same text has been answered with the stored report.
C22_Witness ==
    /\ submits = 2
    /\ lastOutcome.path = "hit"
    /\ procs = <<>>
    /\ messages[2].content = UserContent(DraftPrompt, <<"a">>)
    /\ LastUserContent = UserContent(ScorePrompt, <<"a">>)
    /\ LastContent = messages[3].content

\* C23: each cache key is written at most once: a step that writes the
\* cache adds a key that had no entry, and the value stored for a key never
\* changes afterwards.
C23_WrittenAtMostOnce ==
    [][ /\ \A k \in DOMAIN CacheEntries(storage) :
              /\ k \in DOMAIN CacheEntries(storage')
              /\ CacheEntries(storage')[k] = CacheEntries(storage)[k]
        /\ storage' # storage
              => /\ lastOutcome'.key \notin DOMAIN CacheEntries(storage)
                 /\ DOMAIN CacheEntries(storage')
                       = DOMAIN CacheEntries(storage) \cup {lastOutcome'.key} ]_vars

\* The text of a cached entry was submitted again and the entry is the
\* report of the first turn.
C23_Witness ==
    /\ submits = 2
    /\ lastOutcome.path = "hit"
    /\ DOMAIN CacheEntries(storage) = {lastOutcome.key}
    /\ CacheEntries(storage)[lastOutcome.key] = messages[3].content
    /\ Len(messages) = 5

\* C24: every value held in the cache is the serialization of an object
\* with a scores field whose total and badge are those
\* calculateBadgeAndTotal gives for that scores field; no response text as
\* received without scores and no fallback text is cached.
C24_EntriesAreRescored ==
    \A k \in DOMAIN CacheEntries(storage) :
        LET text == CacheEntries(storage)[k]
        IN  /\ ScoredText(text)
            /\ TotalsMatch(text, JSONparse(text).value.o["scores"])
            /\ text \notin {QuotaExceededText, TooQuicklyText, DraftContent,
                            ProseContent, ZeroScoresContent}

\* The cache holds a report whose total and badge the model did not return
\* as stored: total 100 and "Risk Wrangler" for full marks.
C24_Witness ==
    \E k \in DOMAIN CacheEntries(storage) :
        LET v == JSONparse(CacheEntries(storage)[k]).value
        IN  /\ v.o["scores"] = JObj(FullMarks)
            /\ v.o["total"] = JNum(100)
            /\ v.o["badge"] = JStr(RiskWrangler)

\* The roles of a conversation: "system", then "user" and "assistant" in
\* turn; a pending submission ends it with its user message.
RolesAlternate(msgs) ==
    \A i \in 1..Len(msgs) :
        msgs[i].role = (IF i = 1 THEN "system"
                        ELSE IF i % 2 = 0 THEN "user" ELSE "assistant")

\* s is the beginning of t.
IsPrefix(s, t) == Len(s) <= Len(t) /\ SubSeq(t, 1, Len(s)) = s

\* What a step does to the conversation apart from its first message: an
\* accepted submission appends one user message (and the cached text on a
\* hit), the end of a submission appends one assistant message, and the
\* messages after the first one stay as they are.
TurnsKept ==
    /\ RolesAlternate(messages) /\ RolesAlternate(messages')
    /\ procs = <<>> => Len(messages) % 2 = (IF messages = <<>> THEN 0 ELSE 1)
    /\ procs # <<>> => Len(messages) % 2 = 0 /\ messages # <<>>
    /\ Submitted
          => /\ Len(messages') = (IF messages = <<>> THEN 1 ELSE Len(messages))
                    + (IF Len(procs') > Len(procs) THEN 1 ELSE 2)
             /\ messages'[(IF messages = <<>> THEN 1 ELSE Len(messages)) + 1]
                    = Message("user", PlainText(PromptOf(input)
                          \o <<"\n", "\n">> \o CleanedOf(input)))
    /\ Finished
          => /\ Len(messages') = Len(messages) + 1
             /\ messages'[Len(messages')].role = "assistant"
    /\ messages # <<>> => IsPrefix(Tail(messages), Tail(messages'))

\* C26 (as stated): each accepted submission appends one user message and,
\* at its end, one assistant message, the conversation with no request
\* pending is one system message followed by alternating user and assistant
\* messages, and no earlier message is ever altered or dropped.  The system
\* message is built anew by every submission and replaces the earlier one.
C26_Original ==
    [][ TurnsKept /\ IsPrefix(messages, messages') ]_vars

\* C26 amended: as above, for the user and assistant messages; the first
\* message is the system message built by the latest submission.
C26_TurnsAppended ==
    [][ /\ TurnsKept
        /\ Submitted
              => messages'[1] = Message("system",
                    PlainText(IF PromptOf(input) = ScorePrompt
                              THEN SystemBase \o ScoreRubric
                              ELSE SystemBase)) ]_vars

\* After a Score turn and a Draft turn the conversation holds both turns
\* under the system message of the second.
C26_Witness ==
    /\ submits = 2
    /\ procs = <<>>
    /\ Len(messages) = 5
    /\ messages[1].content = PlainText(SystemBase)
    /\ messages[2].content = UserContent(ScorePrompt, <<"a">>)
    /\ messages[4].content = UserContent(DraftPrompt, <<"a">>)
    /\ lastOutcome.path = "hit"

(***************************************************************************)
(* Claims on the guard of sendMessage (checked under SpecGuard)            *)
(***************************************************************************)

\* The step is a call of sendMessage made while the input field held only
\* whitespace or nothing, or while the loading flag was set.
CalledUnderGuard ==
    /\ ignoredCall' # ignoredCall
    /\ AllSpace(input) \/ isLoading

\* C25: a call of sendMessage while the trimmed input is empty or while the
\* loading flag is true does nothing: the conversation, the input field,
\* the cache and the loading flag are as before, no invocation enters
\* chatWithRetry and no upstream call is made.
C25_GuardedCallIsNoOp ==
    [][ CalledUnderGuard
          => /\ messages' = messages
             /\ input' = input
             /\ storage' = storage
             /\ isLoading' = isLoading
             /\ procs' = procs
             /\ OutstandingCalls' = OutstandingCalls
             /\ submits' = submits
             /\ lastOutcome' = lastOutcome ]_vars

\* sendMessage was called while a submission was pending (the field, cleared
\* by the submission and disabled since, is empty as well), and the
\* submission is still the only one.
C25_Witness ==
    /\ ignoredCall.called
    /\ ignoredCall.loading
    /\ isLoading
    /\ Len(procs) = 1
    /\ OutstandingCalls = 1
    /\ submits = 1
    /\ Len(messages) = 2

====
